---- MODULE Spec2Model ----
(***************************************************************************)
(* A model of hunter.py: the header-block scan (find_by_headers), the      *)
(* aggregate views of Results, sanitized and files_by_extension.           *)
(*                                                                         *)
(* Text is a sequence of one-character strings; a line is the text that    *)
(* readlines() yields (its terminator "\n" kept, absent only on the last   *)
(* line of a file).                                                        *)
(***************************************************************************)
EXTENDS Integers, Sequences, FiniteSets, TLC

VARIABLES
    \* ---- find_by_headers
    phrases,    \* the phrases argument
    disk,       \* path -> the lines of the file at that path
    files,      \* files_by_extension(target, extensions), the list iterated
    pc,         \* position in find_by_headers
    fi,         \* index in files of the file being scanned
    lines,      \* content.readlines() of the file being scanned
    li,         \* number of lines of it already processed
    found,      \* the local found
    _commands,  \* the local _commands
    ret,        \* what the caller received
    \* ---- the views of Results
    self,       \* the Results instance a view is read of
    commands,   \* the module-level name commands (line 198)
    view,       \* the property last read
    out,        \* its value
    exc,        \* the exception reading it raised
    \* ---- sanitized
    command,    \* the argument of sanitized
    once,       \* sanitized(command)
    twice,      \* sanitized(sanitized(command))
    \* ---- files_by_extension
    tree,       \* the entries under target: node -> parent, name, directory or not
    extensions, \* the extensions argument
    listing     \* the list returned, of nodes (resolved paths)

scanVars == <<phrases, disk, files, pc, fi, lines, li, found, _commands, ret>>
viewVars == <<self, commands, view, out, exc>>
sanVars == <<command, once, twice>>
enumVars == <<tree, extensions, listing>>
vars == <<scanVars, viewVars, sanVars, enumVars>>

\* a name not bound yet and a bound one, kept apart from the value bound
None == <<>>
Some(v) == <<v>>

\* ------------------------------------------------------------ bounds

\* total number of lines in the scanned files
MaxLines == 3
\* number of files files_by_extension returned
MaxFiles == 2
\* number of entries of a Results instance whose views are read
MaxLen == 3
\* number of characters of an argument of sanitized
MaxStrLen == 4
\* number of files and directories under target
MaxNodes == 3
\* number of extensions given
MaxExts == 2

\* ------------------------------------------------------------ text

NL == "\n"
\* a chunk of bytes that is not valid UTF-8
BAD == <<"xFF">>

\* Python's `sub in s` for str
Contains(sub, s) ==
    \E i \in 0..(Len(s) - Len(sub)) : SubSeq(s, i + 1, i + Len(sub)) = sub

\* the lines files may hold: terminated ones, and one unterminated
TermLines ==
    { <<"H", NL>>, <<"a", NL>>, <<NL>>, <<"#", "H", NL>>,
      <<"a", "#", "#", "#", NL>> }
LastLines == { <<"H">> }
LineSet == TermLines \cup LastLines \cup {BAD}

PhraseSet == { <<"H">>, <<"a", "#">> }

\* a file as readlines() splits it: only its last line may lack the "\n"
WellFormed(f) == \A i \in 1..Len(f) : f[i] \in LastLines => i = Len(f)

\* open(_file, "r", encoding="utf8") ... readlines() decodes the whole file
Decodable(f) == \A i \in 1..Len(f) : f[i] # BAD

\* ------------------------------------------------------------ find_by_headers

Result(_path, content) == [path |-> _path, content |-> content]

\* line 123: any(phrase in _line for phrase in phrases)
AnyPhrase(_line) == \E phrase \in phrases : Contains(phrase, _line)

\* rule (b) applied before rule (a)
FoundAfterSwapped(f, _line) ==
    LET b == IF Len(_line) <= 1 THEN FALSE ELSE f
    IN  IF AnyPhrase(_line) THEN TRUE ELSE b

\* lines 123-126: found after rules (a) and (b)
FoundAfter(f, _line) ==
    LET a == IF AnyPhrase(_line) THEN TRUE ELSE f
    IN  IF Len(_line) <= 1 THEN FALSE ELSE a

\* the test of the first character left out
EmitsHashInitial(f, _line) ==
    /\ f
    /\ ~Contains(<<"#", "#", "#">>, _line)

\* found ignored
EmitsUnopened(f, _line) ==
    /\ ~Contains(<<"#", "#", "#">>, _line)
    /\ _line[1] # "#"

\* line 127: found is True and "###" not in _line and _line[0] != "#"
Emits(f, _line) ==
    /\ f
    /\ ~Contains(<<"#", "#", "#">>, _line)
    /\ _line[1] # "#"

\* found = False hoisted out of the file loop
OpenFileKeepsFound ==
    /\ pc = "files"
    /\ fi < Len(files)
    /\ Decodable(disk[files[fi + 1]])
    /\ fi' = fi + 1
    /\ lines' = disk[files[fi + 1]]
    /\ li' = 0
    /\ pc' = "lines"
    /\ UNCHANGED <<phrases, disk, files, found, _commands, ret>>
    /\ UNCHANGED <<viewVars, sanVars, enumVars>>

\* lines 120-122, the file decodes
OpenFile ==
    /\ pc = "files"
    /\ fi < Len(files)
    /\ Decodable(disk[files[fi + 1]])
    /\ fi' = fi + 1
    /\ found' = FALSE
    /\ lines' = disk[files[fi + 1]]
    /\ li' = 0
    /\ pc' = "lines"
    /\ UNCHANGED <<phrases, disk, files, _commands, ret>>
    /\ UNCHANGED <<viewVars, sanVars, enumVars>>

\* the error caught and the file skipped
DecodeErrorSkipsFile ==
    /\ pc = "files"
    /\ fi < Len(files)
    /\ ~Decodable(disk[files[fi + 1]])
    /\ fi' = fi + 1
    /\ found' = FALSE
    /\ UNCHANGED <<phrases, disk, files, pc, lines, li, _commands, ret>>
    /\ UNCHANGED <<viewVars, sanVars, enumVars>>

\* lines 120-122, readlines() raises UnicodeDecodeError: nothing catches it
DecodeError ==
    /\ pc = "files"
    /\ fi < Len(files)
    /\ ~Decodable(disk[files[fi + 1]])
    /\ fi' = fi + 1
    /\ found' = FALSE
    /\ pc' = "raised"
    /\ UNCHANGED <<phrases, disk, files, lines, li, _commands, ret>>
    /\ UNCHANGED <<viewVars, sanVars, enumVars>>

\* lines 122-128, one iteration of the line loop
ProcessLine ==
    /\ pc = "lines"
    /\ li < Len(lines)
    /\ LET _line == lines[li + 1]
           f == FoundAfter(found, _line)
       IN  /\ found' = f
           /\ _commands' = IF Emits(f, _line)
                             THEN Append(_commands, Result(files[fi], _line))
                             ELSE _commands
    /\ li' = li + 1
    /\ UNCHANGED <<phrases, disk, files, pc, fi, lines, ret>>
    /\ UNCHANGED <<viewVars, sanVars, enumVars>>

\* line 122 exhausted, the with block closes the file
EndFile ==
    /\ pc = "lines"
    /\ li = Len(lines)
    /\ pc' = "files"
    /\ UNCHANGED <<phrases, disk, files, fi, lines, li, found, _commands, ret>>
    /\ UNCHANGED <<viewVars, sanVars, enumVars>>

\* line 129
Return ==
    /\ pc = "files"
    /\ fi = Len(files)
    /\ ret' = Some(_commands)
    /\ pc' = "returned"
    /\ UNCHANGED <<phrases, disk, files, fi, lines, li, found, _commands>>
    /\ UNCHANGED <<viewVars, sanVars, enumVars>>

\* every split of the lines c among the paths 1..n, in order
Corpus == UNION { [1..n -> LineSet] : n \in 0..MaxLines }

Cuts(n, len) ==
    { k \in [0..n -> 0..len] :
        /\ k[0] = 0
        /\ k[n] = len
        /\ \A i \in 1..n : k[i - 1] <= k[i] }

\* the lists files_by_extension can return over the paths 1..n: every path
\* at least once, a path again when two of the extensions match it
FileLists(n) ==
    { f \in UNION { [1..m -> 1..n] : m \in n..MaxFiles } :
        /\ \A p \in 1..n : \E i \in 1..Len(f) : f[i] = p
        /\ \A i \in 1..Len(f) : \A p \in 1..(f[i] - 1) :
             \E j \in 1..(i - 1) : f[j] = p }

ScanIdle ==
    /\ phrases = {} /\ disk = <<>> /\ files = <<>> /\ pc = "idle" /\ fi = 0
    /\ lines = <<>> /\ li = 0 /\ found = FALSE /\ _commands = <<>> /\ ret = None

ViewIdle ==
    self = <<>> /\ commands = None /\ view = "" /\ out = None /\ exc = ""

SanIdle == command = <<>> /\ once = None /\ twice = None

EnumIdle == tree = <<>> /\ extensions = <<>> /\ listing = None

Init ==
    /\ ViewIdle /\ SanIdle /\ EnumIdle
    /\ phrases \in SUBSET PhraseSet
    /\ \E n \in 0..MaxFiles : \E c \in Corpus :
         /\ n = 0 => c = <<>>
         /\ \E k \in Cuts(n, Len(c)) :
              disk = [i \in 1..n |-> SubSeq(c, k[i - 1] + 1, k[i])]
         /\ files \in FileLists(n)
    /\ \A p \in DOMAIN disk : WellFormed(disk[p])
    /\ pc = "files"
    /\ fi = 0
    /\ lines = <<>>
    /\ li = 0
    /\ found = FALSE
    /\ _commands = <<>>
    /\ ret = None

Next == OpenFile \/ DecodeError \/ ProcessLine \/ EndFile \/ Return

Spec == Init /\ [][Next]_vars

\* ------------------------------------------------------------ sanitized

\* the characters of the arguments, and those of them str.strip() removes
Chars == { "x", " ", "\t", NL }
Whitespace == { " ", "\t", NL }

\* str.replace(old, "", 1): only the first occurrence removed
RECURSIVE RemoveFirst(_, _)
RemoveFirst(s, old) ==
    IF s = <<>> THEN <<>>
    ELSE IF Head(s) = old THEN Tail(s)
    ELSE <<Head(s)>> \o RemoveFirst(Tail(s), old)

\* str.replace(old, "") for a one-character old
RECURSIVE Remove(_, _)
Remove(s, old) ==
    IF s = <<>> THEN <<>>
    ELSE IF Head(s) = old THEN Remove(Tail(s), old)
    ELSE <<Head(s)>> \o Remove(Tail(s), old)

RECURSIVE LStrip(_)
LStrip(s) ==
    IF s # <<>> /\ Head(s) \in Whitespace THEN LStrip(Tail(s)) ELSE s

RECURSIVE RStrip(_)
RStrip(s) ==
    IF s # <<>> /\ s[Len(s)] \in Whitespace
      THEN RStrip(SubSeq(s, 1, Len(s) - 1)) ELSE s

\* str.strip()
Strip(s) == RStrip(LStrip(s))

\* replace("\n", "", 1) in place of replace("\n", "")
sanitizedFirstOnly(_command) == Strip(RemoveFirst(_command, NL))

\* line 36: command.replace("\n", "").strip()
sanitized(_command) == Strip(Remove(_command, NL))

Texts == UNION { [1..n -> Chars] : n \in 0..MaxStrLen }

Sanitize ==
    /\ once = None
    /\ once' = Some(sanitized(command))
    /\ UNCHANGED <<command, twice>>
    /\ UNCHANGED <<scanVars, viewVars, enumVars>>

SanitizeAgain ==
    /\ once # None
    /\ twice = None
    /\ twice' = Some(sanitized(once[1]))
    /\ UNCHANGED <<command, once>>
    /\ UNCHANGED <<scanVars, viewVars, enumVars>>

InitSan ==
    /\ ScanIdle /\ ViewIdle /\ EnumIdle
    /\ command \in Texts
    /\ once = None
    /\ twice = None

NextSan == Sanitize \/ SanitizeAgain

SpecSan == InitSan /\ [][NextSan]_vars

\* ------------------------------------------------------------ Results

\* list.count
Count(seq, item) == Cardinality({ i \in DOMAIN seq : seq[i] = item })

\* line 48: [x.content for x in self]
contents(r) == [i \in DOMAIN r |-> r[i].content]

\* a dict as the sequence of its items, in insertion order: assigning to a
\* key already present keeps the key's place
DictSet(d, k, v) ==
    IF \E i \in DOMAIN d : d[i][1] = k
      THEN [i \in DOMAIN d |-> IF d[i][1] = k THEN <<k, v>> ELSE d[i]]
      ELSE Append(d, <<k, v>>)

RECURSIVE OccurenceUpTo(_, _)
OccurenceUpTo(c, n) ==
    IF n = 0 THEN <<>>
    ELSE DictSet(OccurenceUpTo(c, n - 1), c[n], Count(c, c[n]))

\* line 53: {item: self.contents.count(item) for item in self.contents}
content_occurence(r) == OccurenceUpTo(contents(r), Len(r))

\* the raw texts, not sanitized
content_unique_raw(r) == { contents(r)[i] : i \in DOMAIN r }

\* line 60: list(set([sanitized(x) for x in self.contents])), as the set of
\* its elements (a list of distinct elements in no particular order)
content_unique(r) == { sanitized(contents(r)[i]) : i \in DOMAIN r }

\* line 65: [x.path for x in self]
paths(r) == [i \in DOMAIN r |-> r[i].path]

\* line 70: list(set(self.paths)), as the set of its elements
paths_unique(r) == { paths(r)[i] : i \in DOMAIN r }

\* sorted(..., key=lambda x: x[1], reverse=True) is stable: an item goes
\* after the items whose count is at least its own
InsertDescending(sorted, item) ==
    LET k == Cardinality({ i \in DOMAIN sorted : sorted[i][2] >= item[2] })
    IN  SubSeq(sorted, 1, k) \o <<item>> \o SubSeq(sorted, k + 1, Len(sorted))

RECURSIVE SortedDescending(_, _)
SortedDescending(items, n) ==
    IF n = 0 THEN <<>>
    ELSE InsertDescending(SortedDescending(items, n - 1), items[n])

\* lines 75-77: the items of commands.content_occurence, where commands is
\* the name the module binds at line 198 and not self
heatmap(r) == LET items == content_occurence(commands[1])
              IN  SortedDescending(items, Len(items))

ReadContents ==
    /\ view' = "contents"
    /\ out' = Some(contents(self))
    /\ exc' = ""
    /\ UNCHANGED <<self, commands>>
    /\ UNCHANGED <<scanVars, sanVars, enumVars>>

ReadContentOccurence ==
    /\ view' = "content_occurence"
    /\ out' = Some(content_occurence(self))
    /\ exc' = ""
    /\ UNCHANGED <<self, commands>>
    /\ UNCHANGED <<scanVars, sanVars, enumVars>>

ReadContentUnique ==
    /\ view' = "content_unique"
    /\ out' = Some(content_unique(self))
    /\ exc' = ""
    /\ UNCHANGED <<self, commands>>
    /\ UNCHANGED <<scanVars, sanVars, enumVars>>

ReadPaths ==
    /\ view' = "paths"
    /\ out' = Some(paths(self))
    /\ exc' = ""
    /\ UNCHANGED <<self, commands>>
    /\ UNCHANGED <<scanVars, sanVars, enumVars>>

ReadPathsUnique ==
    /\ view' = "paths_unique"
    /\ out' = Some(paths_unique(self))
    /\ exc' = ""
    /\ UNCHANGED <<self, commands>>
    /\ UNCHANGED <<scanVars, sanVars, enumVars>>

\* line 76 with commands bound
ReadHeatmap ==
    /\ commands # None
    /\ view' = "heatmap"
    /\ out' = Some(heatmap(self))
    /\ exc' = ""
    /\ UNCHANGED <<self, commands>>
    /\ UNCHANGED <<scanVars, sanVars, enumVars>>

\* line 76 with commands unbound (the module imported, line 186 false)
ReadHeatmapNameError ==
    /\ commands = None
    /\ view' = "heatmap"
    /\ out' = None
    /\ exc' = "NameError"
    /\ UNCHANGED <<self, commands>>
    /\ UNCHANGED <<scanVars, sanVars, enumVars>>

\* the raw texts and paths of the entries
RawTexts == { <<"x", NL>>, <<" ", "x", NL>>, <<"y", NL>> }
PathSet == { 1, 2 }
Entries == { Result(p, c) : p \in PathSet, c \in RawTexts }

Collections == UNION { [1..n -> Entries] : n \in 0..MaxLen }

\* commands is unbound, or is self (line 205 reads commands.heatmap), or is
\* another collection (its paths play no part in a heat-map)
InitViews ==
    /\ ScanIdle /\ SanIdle /\ EnumIdle
    /\ self \in Collections
    /\ \/ commands = None
       \/ commands = Some(self)
       \/ \E c \in Collections :
            /\ Len(c) < MaxLen
            /\ \A i \in DOMAIN c : c[i].path = 1
            /\ commands = Some(c)
    /\ view = ""
    /\ out = None
    /\ exc = ""

NextViews ==
    \/ ReadContents \/ ReadContentOccurence \/ ReadContentUnique
    \/ ReadPaths \/ ReadPathsUnique \/ ReadHeatmap \/ ReadHeatmapNameError

SpecViews == InitViews /\ [][NextViews]_vars

\* ------------------------------------------------------------ files_by_extension

\* fnmatch of a name against a pattern of literals, "?" and "*"
RECURSIVE Fnmatch(_, _)
Fnmatch(name, pat) ==
    IF pat = <<>> THEN name = <<>>
    ELSE IF Head(pat) = "*"
      THEN \E k \in 0..Len(name) :
             Fnmatch(SubSeq(name, k + 1, Len(name)), Tail(pat))
    ELSE /\ name # <<>>
         /\ Head(pat) = "?" \/ Head(pat) = Head(name)
         /\ Fnmatch(Tail(name), Tail(pat))

\* glob._ishidden
IsHidden(name) == name # <<>> /\ name[1] = "."

\* the directories "**" stands for under target: target itself (node 0) and
\* every directory reached through directories that are not hidden
RECURSIVE Walked(_)
Walked(d) ==
    \/ d = 0
    \/ /\ tree[d].dir
       /\ ~IsHidden(tree[d].name)
       /\ Walked(tree[d].parent)

\* glob.glob(f"{target.resolve()}/**/*.{x}", recursive=True): the entries,
\* files or directories, of the walked directories that are not hidden and
\* match "*." + x
Glob(x) ==
    { n \in DOMAIN tree :
        /\ Walked(tree[n].parent)
        /\ ~IsHidden(tree[n].name)
        /\ Fnmatch(tree[n].name, <<"*", ".">> \o x) }

\* the nodes of a set in listing order (the order of node numbers)
RECURSIVE Listed(_, _)
Listed(set, n) ==
    IF n = 0 THEN <<>>
    ELSE Listed(set, n - 1) \o (IF n \in set THEN <<n>> ELSE <<>>)

\* lines 89-98: the chain of the globs, directories dropped
RECURSIVE ChainUpTo(_)
ChainUpTo(k) ==
    IF k = 0 THEN <<>>
    ELSE ChainUpTo(k - 1) \o
         Listed({ n \in Glob(extensions[k]) : ~tree[n].dir }, Len(tree))

files_by_extension ==
    /\ listing = None
    /\ listing' = Some(ChainUpTo(Len(extensions)))
    /\ UNCHANGED <<tree, extensions>>
    /\ UNCHANGED <<scanVars, viewVars, sanVars>>

Names ==
    { <<"a", ".", "t">>, <<".", "h", ".", "t">>, <<"c", ".", "m">>,
      <<"s">>, <<".", "g">> }
ExtSet == { <<"t">>, <<"m">> }

\* a directory tree: a node's parent is target (0) or an earlier node that
\* is a directory, and no two entries of a directory share a name
Trees ==
    { t \in UNION { [1..n -> [parent : 0..(MaxNodes - 1), name : Names, dir : BOOLEAN]]
                      : n \in 0..MaxNodes } :
        /\ \A i \in DOMAIN t :
             /\ t[i].parent < i
             /\ t[i].parent # 0 => t[t[i].parent].dir
        /\ \A i, j \in DOMAIN t :
             (i # j /\ t[i].parent = t[j].parent) => t[i].name # t[j].name }

InitEnum ==
    /\ ScanIdle /\ ViewIdle /\ SanIdle
    /\ tree \in Trees
    /\ extensions \in UNION { [1..n -> ExtSet] : n \in 0..MaxExts }
    /\ listing = None

NextEnum == files_by_extension

SpecEnum == InitEnum /\ [][NextEnum]_vars

\* ------------------------------------------------------------ the scan's rules, stated per line

IsTrigger(l) == \E p \in phrases : Contains(p, l)
IsTerminator(l) == Len(l) <= 1
IsComment(l) == l[1] = "#" \/ Contains(<<"#", "#", "#">>, l)

\* line i of f lies in a capture region: a trigger line at or before it, and
\* no terminator from that trigger line to line i
InRegion(f, i) ==
    \E j \in 1..i : IsTrigger(f[j]) /\ \A k \in j..i : ~IsTerminator(f[k])

\* the entries the first n lines of f, at path p, are to give
RECURSIVE Captured(_, _, _)
Captured(p, f, n) ==
    IF n = 0 THEN <<>>
    ELSE Captured(p, f, n - 1) \o
         (IF InRegion(f, n) /\ ~IsComment(f[n])
            THEN <<[path |-> p, content |-> f[n]]>> ELSE <<>>)

\* the entries the first k files are to give
RECURSIVE Before(_)
Before(k) ==
    IF k = 0 THEN <<>>
    ELSE Before(k - 1) \o Captured(files[k], disk[files[k]], Len(disk[files[k]]))

AllDecodable == \A i \in 1..Len(files) : Decodable(disk[files[i]])
FirstBad == CHOOSE b \in 1..Len(files) :
    /\ ~Decodable(disk[files[b]])
    /\ \A i \in 1..(b - 1) : Decodable(disk[files[i]])

\* C1: at every point of the scan the entries collected are exactly, in scan
\* order, the lines that lie in a capture region and are no comment line: the
\* trigger line itself, every non-comment line after it up to the first
\* line of length <= 1, never that terminator (trigger phrase in it or not),
\* and no line after it until another trigger line.
C1_ScanFollowsRules ==
    /\ pc = "lines" => _commands = Before(fi - 1) \o Captured(files[fi], lines, li)
    /\ pc = "files" => _commands = Before(fi)
    /\ pc = "returned" => ret = Some(Before(Len(files)))

C1_Witness ==
    /\ pc = "returned"
    /\ \E p \in DOMAIN disk :
         /\ Len(disk[p]) = 3
         /\ IsTrigger(disk[p][1]) /\ ~IsComment(disk[p][1])
         /\ IsTerminator(disk[p][2])
         /\ ~IsTerminator(disk[p][3]) /\ ~IsComment(disk[p][3])
         /\ ret = Some(<<[path |-> p, content |-> disk[p][1]]>>)

\* C2: a file none of whose lines contains a trigger phrase has no entry
\* carrying its path, in the collection being built and in the one returned.
C2_NoPhraseNoEntries ==
    \A p \in DOMAIN disk :
        (\A i \in 1..Len(disk[p]) : ~IsTrigger(disk[p][i])) =>
            /\ \A i \in 1..Len(_commands) : _commands[i].path # p
            /\ ret # None => \A i \in 1..Len(ret[1]) : ret[1][i].path # p

C2_Witness ==
    /\ pc = "returned"
    /\ \E p, q \in DOMAIN disk :
         /\ \A i \in 1..Len(disk[p]) : ~IsTrigger(disk[p][i])
         /\ \E i \in 1..Len(disk[p]) :
              ~IsTerminator(disk[p][i]) /\ ~IsComment(disk[p][i])
         /\ files = <<q, p>>
         /\ Len(ret[1]) > 0
         /\ \A i \in 1..Len(ret[1]) : ret[1][i].path = q

\* C3: a comment line ('#' first, or '###' in it) longer than one character
\* is never emitted and never closes the region: it leaves capturing as it
\* was, or opens it when it holds a trigger phrase; the non-comment line
\* right after a comment line of an open region is emitted.
C3_CommentStep ==
    (pc = "lines" /\ li' = li + 1) =>
        LET l == lines[li + 1]
        IN  (IsComment(l) /\ ~IsTerminator(l)) =>
                /\ _commands' = _commands
                /\ found' = (found \/ IsTrigger(l))

C3_AfterComment ==
    (/\ pc = "lines" /\ li >= 2
     /\ IsComment(lines[li - 1]) /\ InRegion(lines, li - 1)
     /\ ~IsTerminator(lines[li]) /\ ~IsComment(lines[li])) =>
        /\ Len(_commands) > 0
        /\ _commands[Len(_commands)] = [path |-> files[fi], content |-> lines[li]]

C3_CommentLinesSkipped == [][C3_CommentStep]_vars /\ []C3_AfterComment

C3_Witness ==
    /\ pc = "lines" /\ li = 2
    /\ IsComment(lines[1]) /\ IsTrigger(lines[1])
    /\ ~IsTerminator(lines[2]) /\ ~IsComment(lines[2]) /\ ~IsTrigger(lines[2])
    /\ _commands = <<[path |-> files[fi], content |-> lines[2]]>>

\* C4: capturing is false when the first line of a file is read; the lines
\* of a file before its own first trigger line are never emitted, whatever
\* the file before left open; closing a file and returning emit nothing.
C4_FreshAtFirstLine == (pc = "lines" /\ li = 0) => ~found

C4_Step ==
    /\ (pc = "lines" /\ li' = li + 1 /\ \A j \in 1..(li + 1) : ~IsTrigger(lines[j]))
          => _commands' = _commands
    /\ (pc = "files" \/ (pc = "lines" /\ li = Len(lines)))
          => _commands' = _commands

C4_NoCaptureAcrossFiles == []C4_FreshAtFirstLine /\ [][C4_Step]_vars

C4_Witness ==
    /\ pc = "lines" /\ fi = 2 /\ li = 1
    /\ files[1] # files[2]
    /\ InRegion(disk[files[1]], Len(disk[files[1]]))
    /\ ~IsComment(disk[files[1]][Len(disk[files[1]])])
    /\ ~IsTrigger(lines[1]) /\ ~IsTerminator(lines[1]) /\ ~IsComment(lines[1])
    /\ Len(_commands) > 0
    /\ \A i \in 1..Len(_commands) : _commands[i].path = files[1]

\* C9: when some enumerated file does not decode, the caller never receives
\* a collection, no file after the first such file is opened, and no entry
\* carries that file's path.
C9_DecodeErrorAborts ==
    ~AllDecodable =>
        /\ ret = None
        /\ pc # "returned"
        /\ fi <= FirstBad
        /\ pc = "lines" => fi < FirstBad
        /\ \A i \in 1..Len(_commands) : _commands[i].path # files[FirstBad]

C9_Witness ==
    /\ pc = "raised"
    /\ fi = 2
    /\ Len(_commands) > 0
    /\ ret = None

\* ------------------------------------------------------------ the views, stated over the entries

RawOf(r) == { r[i].content : i \in DOMAIN r }

Min(S) == CHOOSE m \in S : \A x \in S : m <= x
Max(S) == CHOOSE m \in S : \A x \in S : m >= x

\* s without its newlines, cut to its first and last non-whitespace character
Trimmed(s) ==
    LET u == SelectSeq(s, LAMBDA c : c # NL)
        inner == { i \in 1..Len(u) : u[i] \notin Whitespace }
    IN  IF inner = {} THEN <<>> ELSE SubSeq(u, Min(inner), Max(inner))

RECURSIVE SumCounts(_, _)
SumCounts(h, n) == IF n = 0 THEN 0 ELSE SumCounts(h, n - 1) + h[n][2]

\* the place of the first entry of r whose raw text is t, 0 when there is none
FirstIndex(r, t) ==
    IF t \in RawOf(r) THEN Min({ i \in DOMAIN r : r[i].content = t }) ELSE 0

\* C5: reading r.heatmap raises nothing and gives one pair per distinct raw
\* text of r, the counts adding up to len(r).
C5_HeatmapProjectsSelf ==
    view = "heatmap" =>
        /\ exc = ""
        /\ out # None
        /\ LET h == out[1]
           IN  /\ \A i, j \in DOMAIN h : i # j => h[i][1] # h[j][1]
               /\ { h[i][1] : i \in DOMAIN h } = RawOf(self)
               /\ SumCounts(h, Len(h)) = Len(self)

\* C6: the counts of a heat-map of more than one pair never increase along
\* it, and pairs of equal count stand in the order in which their raw texts
\* first appear in the collection the heat-map was read of.
C6_HeatmapSorted ==
    (view = "heatmap" /\ exc = "") =>
        LET h == out[1]
        IN  \A i \in 1..(Len(h) - 1) :
              /\ h[i][2] >= h[i + 1][2]
              /\ h[i][2] = h[i + 1][2] =>
                   /\ FirstIndex(self, h[i][1]) > 0
                   /\ FirstIndex(self, h[i][1]) < FirstIndex(self, h[i + 1][1])

\* C7: content_occurence has one key per distinct raw text, mapped to the
\* number of entries with exactly that raw text; content_unique is the set
\* of the sanitized texts; paths_unique is the set of the paths.
C7_Views ==
    /\ view = "content_occurence" =>
         LET d == out[1]
         IN  /\ \A i, j \in DOMAIN d : i # j => d[i][1] # d[j][1]
             /\ { d[i][1] : i \in DOMAIN d } = RawOf(self)
             /\ \A i \in DOMAIN d :
                  d[i][2] = Cardinality({ k \in DOMAIN self : self[k].content = d[i][1] })
    /\ view = "content_unique" =>
         out[1] = { Trimmed(self[i].content) : i \in DOMAIN self }
    /\ view = "paths_unique" =>
         out[1] = { self[i].path : i \in DOMAIN self }

C7_Witness ==
    /\ view = "content_unique"
    /\ Len(self) = 2
    /\ self[1].path # self[2].path
    /\ self[1].content = <<"x", NL>>
    /\ self[2].content = <<" ", "x", NL>>
    /\ content_occurence(self) = << <<self[1].content, 1>>, <<self[2].content, 1>> >>
    /\ out = Some({ <<"x">> })

\* C10: sanitized gives its argument without newlines and without leading
\* and trailing whitespace, and applied to its own result gives it back.
C10_SanitizedIdempotent ==
    /\ once # None => once[1] = Trimmed(command)
    /\ twice # None => twice = once

C10_Witness ==
    /\ twice # None
    /\ twice = once
    /\ once[1] # <<>>
    /\ command[1] \in Whitespace
    /\ \E i, j, k \in DOMAIN command :
         /\ i < j /\ j < k
         /\ command[i] = "x" /\ command[j] = NL /\ command[k] = "x"
    /\ once = Some(<<"x", "x">>)

\* ------------------------------------------------------------ the enumeration, stated over the tree

EndsWith(name, suffix) ==
    /\ Len(suffix) <= Len(name)
    /\ SubSeq(name, Len(name) - Len(suffix) + 1, Len(name)) = suffix

\* C8: the list returned holds exactly the entries under target, at any
\* depth, that are no directory and whose name ends with "." + ext for one
\* of the extensions, hidden ones included.
C8_EveryMatchingFile ==
    listing # None =>
        { listing[1][i] : i \in DOMAIN listing[1] } =
            { n \in DOMAIN tree :
                /\ ~tree[n].dir
                /\ \E k \in DOMAIN extensions :
                     EndsWith(tree[n].name, <<".">> \o extensions[k]) }

====
